---- MODULE Spec2Model ----
(***************************************************************************)
(* Model of src/app.py: the cleaning / join / rank pipeline of the stock   *)
(* analyzer and the main script that drives it.                            *)
(*                                                                         *)
(* Text is modelled as a sequence of characters, one string per character. *)
(* The characters of the column names are written in pinyin:               *)
(*   dai hao        = the id column          (line 26)                     *)
(*   ming cheng1    = the name column        (line 26)                     *)
(*   chan ye bie    = the industry column    (line 26)                     *)
(*   dan yue ying shou nian zeng ( % )  = the growth column (line 45)      *)
(*   cheng2 jiao e ( bai wan )          = the default value column (l.72)  *)
(*   cheng2 jiao e ( yi )               = the derived column (line 84)     *)
(* A cell is a tagged record: Str(text), Num(integer), Rat(num, den) for   *)
(* the quotient of line 84, or NaN (pandas' missing value).                *)
(* A DataFrame is [cols |-> sequence of column names,                      *)
(*                 rows |-> sequence of functions column name -> cell].    *)
(***************************************************************************)
EXTENDS Integers, Sequences, FiniteSets, TLC

VARIABLES raw_rev, raw_val, raw_ind, pc,
          df_ind, err_ind, df_rev_top50, err_rev, df_val_sorted, err_val,
          raw_rev_clean, df_top20_mix, shown_errors, tabs, ran

vars == <<raw_rev, raw_val, raw_ind, pc, df_ind, err_ind, df_rev_top50, err_rev,
          df_val_sorted, err_val, raw_rev_clean, df_top20_mix, shown_errors,
          tabs, ran>>

(* ------------------------------ values -------------------------------- *)

None == [t |-> "none"]
NaN == [t |-> "nan"]
Str(s) == [t |-> "s", v |-> s]
Num(n) == [t |-> "n", v |-> n]
Rat(n, d) == [t |-> "q", num |-> n, den |-> d]

IsNaN(c) == c.t = "nan"

Range(s) == {s[i] : i \in 1..Len(s)}

(* ---------------------------- column names ---------------------------- *)

COL_ID == <<"dai", "hao">>
COL_NAME == <<"ming", "cheng1">>
COL_IND == <<"chan", "ye", "bie">>
COL_GROWTH == <<"dan", "yue", "ying", "shou", "nian", "zeng", "(", "%", ")">>
COL_AMT == <<"cheng2", "jiao", "e", "(", "bai", "wan", ")">>
COL_YI == <<"cheng2", "jiao", "e", "(", "yi", ")">>
CHENGJIAO == <<"cheng2", "jiao">>
BAIWAN == <<"bai", "wan">>

\* pat in c: pat is a run of consecutive characters of c.
Contains(c, pat) ==
  \E i \in 1..(Len(c) - Len(pat) + 1) : SubSeq(c, i, i + Len(pat) - 1) = pat

(* ------------------------- Field normalisation ------------------------ *)

\* Series.astype(str): text stays, a missing value becomes the text "nan".
astype_str(c) == IF IsNaN(c) THEN <<"n", "a", "n">> ELSE c.v

\* str.replace of single characters by nothing.
RemoveChars(s, chars) ==
  LET Keep(ch) == ch \notin chars IN SelectSeq(s, Keep)

Whitespace == {" "}

RECURSIVE LStrip(_)
LStrip(s) == IF s # <<>> /\ Head(s) \in Whitespace THEN LStrip(Tail(s)) ELSE s

RECURSIVE RStrip(_)
RStrip(s) ==
  IF s # <<>> /\ s[Len(s)] \in Whitespace
    THEN RStrip(SubSeq(s, 1, Len(s) - 1)) ELSE s

\* str.strip()
strip(s) == RStrip(LStrip(s))

\* clean_stock_id on one cell.
clean_stock_id(c) == Str(strip(RemoveChars(astype_str(c), {"=", "\""})))

\* clean_number on one cell.
clean_number(c) == Str(RemoveChars(astype_str(c), {","}))

Digits == {"0", "1", "2", "3", "4", "5", "6", "7", "8", "9"}

DigitVal(d) ==
  CASE d = "0" -> 0 [] d = "1" -> 1 [] d = "2" -> 2 [] d = "3" -> 3
    [] d = "4" -> 4 [] d = "5" -> 5 [] d = "6" -> 6 [] d = "7" -> 7
    [] d = "8" -> 8 [] d = "9" -> 9

RECURSIVE DigitsValue(_)
DigitsValue(s) ==
  IF s = <<>> THEN 0
  ELSE 10 * DigitsValue(SubSeq(s, 1, Len(s) - 1)) + DigitVal(s[Len(s)])

\* pd.to_numeric(errors='coerce') on one text cell: an optionally signed run
\* of digits is the number, any other text is missing.
to_numeric(c) ==
  LET s == c.v
      neg == s # <<>> /\ Head(s) = "-"
      body == IF neg THEN Tail(s) ELSE s
  IN IF body = <<>> \/ \E i \in 1..Len(body) : body[i] \notin Digits
       THEN NaN
       ELSE Num(IF neg THEN 0 - DigitsValue(body) ELSE DigitsValue(body))

\* Series.fillna(value)
fillna(c, n) == IF IsNaN(c) THEN Num(n) ELSE c

(* --------------------------- DataFrame helpers ------------------------ *)

Columns(df) == Range(df.cols)

\* set(cols).issubset(df.columns)
issubset(cols, df) == Range(cols) \subseteq Columns(df)

\* df[cols].copy()
Project(df, cols) ==
  [cols |-> cols,
   rows |-> [i \in 1..Len(df.rows) |-> [c \in Range(cols) |-> df.rows[i][c]]]]

\* df.dropna(subset=[col])
dropna(df, col) ==
  LET Keep(r) == ~IsNaN(r[col])
  IN [cols |-> df.cols, rows |-> SelectSeq(df.rows, Keep)]

\* df.head(n)
head(df, n) ==
  [cols |-> df.cols,
   rows |-> SubSeq(df.rows, 1, IF Len(df.rows) < n THEN Len(df.rows) ELSE n)]

\* The rows a left row joins with: one per matching right row, in the right
\* table's order, or the left row alone with the right columns missing.
JoinRow(l, right, extra) ==
  LET Match(r) == r[COL_ID] = l[COL_ID]
      hits == SelectSeq(right.rows, Match)
      Wide(r) == [c \in DOMAIN l \cup Range(extra) |->
                    IF c \in DOMAIN l THEN l[c] ELSE r[c]]
      Alone == [c \in DOMAIN l \cup Range(extra) |->
                    IF c \in DOMAIN l THEN l[c] ELSE NaN]
  IN IF hits = <<>> THEN <<Alone>>
     ELSE [k \in 1..Len(hits) |-> Wide(hits[k])]

RECURSIVE JoinRows(_, _, _)
JoinRows(lrows, right, extra) ==
  IF Len(lrows) = 0 THEN <<>>
  ELSE IF Len(lrows) = 1 THEN JoinRow(lrows[1], right, extra)
  ELSE LET mid == Len(lrows) \div 2
       IN JoinRows(SubSeq(lrows, 1, mid), right, extra)
            \o JoinRows(SubSeq(lrows, mid + 1, Len(lrows)), right, extra)

\* An inner join: a left row without a match is dropped.
merge_inner(left, right) ==
  LET NotKey(c) == c # COL_ID
      extra == SelectSeq(right.cols, NotKey)
      Matched(l) == \E k \in 1..Len(right.rows) :
                      right.rows[k][COL_ID] = l[COL_ID]
  IN [cols |-> left.cols \o extra,
      rows |-> JoinRows(SelectSeq(left.rows, Matched), right, extra)]

\* pd.merge(left, right, on=id, how='left')
merge_left(left, right) ==
  LET NotKey(c) == c # COL_ID
      extra == SelectSeq(right.cols, NotKey)
  IN [cols |-> left.cols \o extra,
      rows |-> JoinRows(left.rows, right, extra)]

\* The numeric order of two number cells (Num or Rat, denominators positive).
NumOf(c) == IF c.t = "q" THEN c.num ELSE c.v
DenOf(c) == IF c.t = "q" THEN c.den ELSE 1
Less(a, b) == NumOf(a) * DenOf(b) < NumOf(b) * DenOf(a)

\* The rows in descending order of col: a row's place is one more than the
\* number of rows that go before it. Rows with equal keys keep their order
\* ("stable") or reverse it ("reversed").
SortRowsDesc(rows, col, tie) ==
  LET n == Len(rows)
      keys == SubSeq([i \in 1..n |-> rows[i][col]], 1, n)
      Before(j, i) ==
        \/ Less(keys[i], keys[j])
        \/ /\ ~Less(keys[j], keys[i])
           /\ IF tie = "stable" THEN j < i ELSE j > i
      place == SubSeq([i \in 1..n |->
                         1 + Cardinality({j \in 1..n : Before(j, i)})], 1, n)
      at == [k \in 1..n |-> CHOOSE i \in 1..n : place[i] = k]
  IN [k \in 1..n |-> rows[at[k]]]

\* The sort with ascending left at its default: ascending order.
sort_values_asc(df, col, tie) ==
  LET d == SortRowsDesc(df.rows, col, tie)
  IN [cols |-> df.cols, rows |-> [k \in 1..Len(d) |-> d[Len(d) + 1 - k]]]

\* df.sort_values(by=col, ascending=False). The default sort is not stable:
\* tie names the order it leaves rows with equal keys in.
sort_values_desc(df, col, tie) ==
  [cols |-> df.cols, rows |-> SortRowsDesc(df.rows, col, tie)]

TiePolicies == {"stable", "reversed"}

(* ------------------------------ builders ------------------------------ *)

\* Lines 54, 66, 81 and 84
REVENUE_DEFAULT == -999
TOP_REVENUE == 50
VALUE_DEFAULT == 0
HUNDRED == 100

\* Lines 53-54: the growth text as the Revenue Ranker reads it.
RevenueNumber(c) == fillna(to_numeric(clean_number(c)), REVENUE_DEFAULT)

\* Lines 80-81: the value text as the Value Ranker reads it.
ValueNumber(c) == fillna(to_numeric(clean_number(c)), VALUE_DEFAULT)

\* Lines 104-106: the growth text as the Revenue Lookup Builder reads it.
LookupNumber(c) == to_numeric(clean_number(c))

\* The column transformations of the builders.
Transform(how, c) ==
  CASE how = "clean_stock_id" -> clean_stock_id(c)
    [] how = "revenue" -> RevenueNumber(c)
    [] how = "value" -> ValueNumber(c)
    [] how = "lookup" -> LookupNumber(c)

\* df[col] = how(df[col])
MapCol(df, col, how) ==
  [cols |-> df.cols,
   rows |-> [i \in 1..Len(df.rows) |->
               [c \in Columns(df) |->
                  IF c = col THEN Transform(how, df.rows[i][c])
                  ELSE df.rows[i][c]]]]

\* An error message: which builder wrote it and the column names it prints.
Err(who, names) == [t |-> "err", src |-> who, names |-> names]

Pair(df, err) == [df |-> df, err |-> err]

\* process_industry_data(df)
target_cols == <<COL_ID, COL_NAME, COL_IND>>

\* The builder without the id normalization of line 31.
process_industry_data_raw_id(df) ==
  IF ~issubset(target_cols, df)
    THEN Pair(None, Err("industry", Range(target_cols) \ Columns(df)))
    ELSE Pair(dropna(Project(df, target_cols), COL_IND), None)

process_industry_data(df) ==
  IF ~issubset(target_cols, df)
    THEN Pair(None, Err("industry", Range(target_cols) \ Columns(df)))
    ELSE Pair(dropna(MapCol(Project(df, target_cols), COL_ID, "clean_stock_id"),
                     COL_IND),
              None)

\* process_revenue_data(rev_df, ind_df)
rev_req_cols == <<COL_ID, COL_NAME, COL_GROWTH>>

exclude_industries ==
  { <<"jian", "cai", "ying", "zao">>, <<"jian", "cai", "ying", "zao", "ye">>,
    <<"jin", "rong", "bao", "xian">>, <<"jin", "rong", "bao", "xian", "ye">>,
    <<"jin", "kong", "ye">>, <<"yin", "hang", "ye">>,
    <<"zheng", "quan", "ye">>, <<"tong", "xin", "wang", "lu", "ye">> }

\* The mask with only the long spellings (ending in ye) excluded.
filter_mask_long_only(r) ==
  ~(r[COL_IND].t = "s" /\ r[COL_IND].v \in exclude_industries
      /\ r[COL_IND].v[Len(r[COL_IND].v)] = "ye")

\* ~merged_df[industry].isin(exclude_industries)
filter_mask(r) == ~(r[COL_IND].t = "s" /\ r[COL_IND].v \in exclude_industries)

process_revenue_data(rev_df, ind_df, tie) ==
  IF ~issubset(rev_req_cols, rev_df)
    THEN Pair(None, Err("revenue", Range(rev_req_cols) \ Columns(rev_df)))
    ELSE
      LET df_clean == MapCol(MapCol(Project(rev_df, rev_req_cols),
                                    COL_ID, "clean_stock_id"),
                             COL_GROWTH, "revenue")
          merged_df == dropna(merge_left(df_clean,
                                         Project(ind_df, <<COL_ID, COL_IND>>)),
                              COL_IND)
          filtered_df == [cols |-> merged_df.cols,
                          rows |-> SelectSeq(merged_df.rows, filter_mask)]
          final_df == head(sort_values_desc(filtered_df, COL_GROWTH, tie),
                           TOP_REVENUE)
      IN Pair(final_df, None)

\* process_value_data(df)
\* The columns whose name holds both markers, in column order.
col_map(df) ==
  LET Both(c) == Contains(c, CHENGJIAO) /\ Contains(c, BAIWAN)
  IN SelectSeq(df.cols, Both)

\* The resolution taking the last matching column instead of the first.
target_val_col_last(df) ==
  IF col_map(df) # <<>> THEN col_map(df)[Len(col_map(df))] ELSE COL_AMT

target_val_col(df) == IF col_map(df) # <<>> THEN col_map(df)[1] ELSE COL_AMT

val_req_cols(df) == <<COL_ID, COL_NAME, target_val_col(df)>>

\* df_clean[derived] = df_clean[target_val_col] / 100
AddYi(df, col) ==
  [cols |-> df.cols \o <<COL_YI>>,
   rows |-> [i \in 1..Len(df.rows) |->
               [c \in Columns(df) \cup {COL_YI} |->
                  IF c = COL_YI THEN Rat(df.rows[i][col].v, HUNDRED)
                  ELSE df.rows[i][c]]]]

process_value_data(df, tie) ==
  IF ~issubset(val_req_cols(df), df)
    THEN Pair(None, Err("value", Range(val_req_cols(df))))
    ELSE
      LET col == target_val_col(df)
          df_clean == AddYi(MapCol(MapCol(Project(df, val_req_cols(df)),
                                          COL_ID, "clean_stock_id"),
                                   col, "value"),
                            col)
          df_result == sort_values_desc(df_clean, COL_YI, tie)
      IN Pair(Project(df_result, <<COL_ID, COL_NAME, COL_YI>>), None)

\* get_raw_revenue_map(rev_df)
map_req_cols == <<COL_ID, COL_GROWTH>>

\* The builder returning an empty table, not None, on missing columns.
get_raw_revenue_map_empty(rev_df) ==
  IF ~issubset(map_req_cols, rev_df) THEN [cols |-> map_req_cols, rows |-> <<>>]
  ELSE MapCol(MapCol(Project(rev_df, map_req_cols), COL_ID, "clean_stock_id"),
              COL_GROWTH, "lookup")

get_raw_revenue_map(rev_df) ==
  IF ~issubset(map_req_cols, rev_df) THEN None
  ELSE MapCol(MapCol(Project(rev_df, map_req_cols), COL_ID, "clean_stock_id"),
              COL_GROWTH, "lookup")

\* Main script, lines 153 and 193
TOP_MIX == 20
TOP_TAB3 == 50

(* ------------------------------- inputs ------------------------------- *)

\* Other column names an export may carry.
COL_VALM == <<"cheng2", "jiao", "zhi", "(", "bai", "wan", ")">>
COL_VOL == <<"cheng2", "jiao", "liang">>
COL_BWCJ == <<"bai", "wan", "cheng2", "jiao">>

AllCols == {COL_ID, COL_NAME, COL_IND, COL_GROWTH, COL_AMT, COL_VALM,
            COL_VOL, COL_BWCJ}

\* A security as the three exports spell it: every export's cells of one row.
Security(id, ind, growth, amt, valm) ==
  [c \in AllCols |->
     CASE c = COL_ID -> id
       [] c = COL_NAME -> Str(<<"n">>)
       [] c = COL_IND -> ind
       [] c = COL_GROWTH -> growth
       [] c = COL_AMT -> amt
       [] c = COL_VALM -> valm
       [] c = COL_VOL -> Str(<<"7">>)
       [] c = COL_BWCJ -> amt]

SEMI == Str(<<"ban", "dao", "ti">>)
JINKONG == Str(<<"jin", "kong", "ye">>)
JIANCAI == Str(<<"jian", "cai", "ying", "zao">>)

S1 == Security(Str(<<"=", "\"", "1", "\"">>), SEMI, Str(<<"1", "2">>),
               Str(<<"1", ",", "2", "0", "0">>), Str(<<"5">>))
S2 == Security(Str(<<" ", "2">>), JINKONG, Str(<<"N", "/", "A">>),
               Str(<<"3", "0", "0">>), Str(<<"9", "0", "0">>))
S3 == Security(Str(<<"3">>), SEMI, Str(<<"-", "1", ",", "0", "0", "0">>),
               NaN, Str(<<"1">>))
S4 == Security(Str(<<"1", " ">>), JIANCAI, NaN,
               Str(<<"3", "0", "0">>), Str(<<"x">>))
S5 == Security(Str(<<"4">>), NaN, Str(<<"-", "9", "9", "9">>),
               Str(<<"-", "5">>), Str(<<"2">>))
S6 == Security(Str(<<"2">>), SEMI, Str(<<"x">>),
               Str(<<"N", "/", "A">>), Str(<<"2">>))

S7 == Security(Str(<<"1">>), SEMI, Str(<<"7">>),
               Str(<<"1", "2", "0", "0">>), Str(<<"3">>))

\* The row patterns a table repeats.
Patterns == { <<S1>>, <<S1, S2>>, <<S1, S2, S7>>, <<S6, S3, S1>>,
              <<S3, S4, S5, S2>> }

\* How many rows a small table may have, and how far a large table
\* exceeds the limit it is cut to.
MaxRows == 3
Over == 1

\* n rows repeating pattern, with the columns cols.
Table(cols, pattern, n) ==
  [cols |-> cols,
   rows |-> [i \in 1..n |->
               [c \in Range(cols) |-> pattern[((i - 1) % Len(pattern)) + 1][c]]]]

ValColumnLists ==
  { <<COL_ID, COL_NAME, COL_AMT>>,
    <<COL_ID, COL_NAME, COL_VALM, COL_AMT>>,
    <<COL_ID, COL_NAME, COL_AMT, COL_VALM>>,
    <<COL_ID, COL_NAME, COL_VOL, COL_AMT>>,
    <<COL_ID, COL_NAME, COL_BWCJ>>,
    <<COL_ID, COL_AMT>>,
    <<COL_ID, COL_NAME>>,
    <<COL_ID, COL_NAME, COL_VOL>>,
    <<COL_NAME, COL_VALM>> }

RevColumnLists ==
  { <<COL_ID, COL_NAME, COL_GROWTH>>,
    <<COL_GROWTH, COL_AMT, COL_NAME, COL_ID>>,
    <<COL_ID, COL_GROWTH>>,
    <<COL_ID, COL_NAME>>,
    <<COL_NAME, COL_GROWTH>>,
    <<COL_NAME>> }

IndColumnLists ==
  { <<COL_ID, COL_NAME, COL_IND>>,
    <<COL_IND, COL_ID, COL_NAME, COL_AMT>>,
    <<COL_ID, COL_IND>>,
    <<COL_ID, COL_NAME>>,
    <<COL_IND>> }

ValSizes == (1..MaxRows) \cup {TOP_MIX + Over}
RevSizes == (1..MaxRows) \cup {TOP_REVENUE + Over}
IndSizes == 1..MaxRows

Tables(cols, sizes) ==
  {Table(cols, <<S1>>, 0)}
    \cup {Table(cols, p, n) : p \in Patterns, n \in sizes}

\* Exports with the expected columns and varying rows.
DataInputs ==
  /\ raw_rev \in Tables(<<COL_ID, COL_NAME, COL_GROWTH>>, RevSizes)
  /\ raw_val \in Tables(<<COL_ID, COL_NAME, COL_AMT>>, ValSizes)
  /\ raw_ind \in Tables(<<COL_ID, COL_NAME, COL_IND>>, IndSizes)

\* Exports with varying columns.
SchemaInputs ==
  /\ raw_rev \in {Table(cols, <<S1, S2>>, 2) : cols \in RevColumnLists}
  /\ raw_val \in {Table(cols, <<S3, S1>>, 2) : cols \in ValColumnLists}
  /\ raw_ind \in {Table(cols, <<S1, S2, S3>>, 3) : cols \in IndColumnLists}

(* ----------------------------- main script ---------------------------- *)

\* Lines 133-140: the three files are uploaded and read.
Init ==
  /\ (DataInputs \/ SchemaInputs)
  /\ pc = "industry"
  /\ df_ind = None /\ err_ind = None
  /\ df_rev_top50 = None /\ err_rev = None
  /\ df_val_sorted = None /\ err_val = None
  /\ raw_rev_clean = None /\ df_top20_mix = None
  /\ shown_errors = <<>>
  /\ tabs = None
  /\ ran = <<>>

\* Line 143
StepIndustry ==
  /\ pc = "industry"
  /\ LET res == process_industry_data(raw_ind)
     IN df_ind' = res.df /\ err_ind' = res.err
  /\ ran' = Append(ran, "industry")
  /\ pc' = "gate"
  /\ UNCHANGED <<raw_rev, raw_val, raw_ind, df_rev_top50, err_rev,
                 df_val_sorted, err_val, raw_rev_clean, df_top20_mix,
                 shown_errors, tabs>>

\* Lines 145-147
StepRevenue ==
  /\ pc = "gate" /\ df_ind # None
  /\ \E tie \in TiePolicies :
       LET res == process_revenue_data(raw_rev, df_ind, tie)
       IN df_rev_top50' = res.df /\ err_rev' = res.err
  /\ ran' = Append(ran, "revenue")
  /\ pc' = "value"
  /\ UNCHANGED <<raw_rev, raw_val, raw_ind, df_ind, err_ind,
                 df_val_sorted, err_val, raw_rev_clean, df_top20_mix,
                 shown_errors, tabs>>

\* Line 148
StepValue ==
  /\ pc = "value"
  /\ \E tie \in TiePolicies :
       LET res == process_value_data(raw_val, tie)
       IN df_val_sorted' = res.df /\ err_val' = res.err
  /\ ran' = Append(ran, "value")
  /\ pc' = "composite"
  /\ UNCHANGED <<raw_rev, raw_val, raw_ind, df_ind, err_ind,
                 df_rev_top50, err_rev, raw_rev_clean, df_top20_mix,
                 shown_errors, tabs>>

\* Lines 153-163, given df_val_sorted is a table.
composite_top20(val_sorted, rev_clean, ind) ==
  LET top == head(val_sorted, TOP_MIX)
      with_rev == IF rev_clean # None THEN merge_left(top, rev_clean) ELSE top
  IN merge_left(with_rev, Project(ind, <<COL_ID, COL_IND>>))

\* Lines 151-163
StepComposite ==
  /\ pc = "composite"
  /\ IF df_val_sorted # None
       THEN /\ raw_rev_clean' = get_raw_revenue_map(raw_rev)
            /\ df_top20_mix' =
                 composite_top20(df_val_sorted, raw_rev_clean', df_ind)
            /\ ran' = ran \o <<"lookup", "composite">>
       ELSE UNCHANGED <<raw_rev_clean, df_top20_mix, ran>>
  /\ pc' = "errors"
  /\ UNCHANGED <<raw_rev, raw_val, raw_ind, df_ind, err_ind,
                 df_rev_top50, err_rev, df_val_sorted, err_val,
                 shown_errors, tabs>>

\* Lines 166-167
StepErrors ==
  /\ pc = "errors"
  /\ shown_errors' = shown_errors
                       \o (IF err_rev # None THEN <<err_rev>> ELSE <<>>)
                       \o (IF err_val # None THEN <<err_val>> ELSE <<>>)
  /\ pc' = "tabs"
  /\ UNCHANGED <<raw_rev, raw_val, raw_ind, df_ind, err_ind,
                 df_rev_top50, err_rev, df_val_sorted, err_val,
                 raw_rev_clean, df_top20_mix, tabs, ran>>

\* The tabs shown whenever the value ranking exists.
StepTabsPartial ==
  /\ pc = "tabs"
  /\ tabs' = IF df_val_sorted # None
               THEN [t |-> "tabs", tab1 |-> df_top20_mix, tab2 |-> df_rev_top50,
                     tab3 |-> head(df_val_sorted, TOP_TAB3)]
               ELSE tabs
  /\ pc' = "done"
  /\ UNCHANGED <<raw_rev, raw_val, raw_ind, df_ind, err_ind,
                 df_rev_top50, err_rev, df_val_sorted, err_val,
                 raw_rev_clean, df_top20_mix, shown_errors, ran>>

\* Lines 170-193
StepTabs ==
  /\ pc = "tabs"
  /\ tabs' = IF df_rev_top50 # None /\ df_val_sorted # None
               THEN [t |-> "tabs", tab1 |-> df_top20_mix, tab2 |-> df_rev_top50,
                     tab3 |-> head(df_val_sorted, TOP_TAB3)]
               ELSE tabs
  /\ pc' = "done"
  /\ UNCHANGED <<raw_rev, raw_val, raw_ind, df_ind, err_ind,
                 df_rev_top50, err_rev, df_val_sorted, err_val,
                 raw_rev_clean, df_top20_mix, shown_errors, ran>>

\* The else branch running the Value Ranker on its own before reporting.
StepIndustryErrorThenValue ==
  /\ pc = "gate" /\ df_ind = None
  /\ \E tie \in TiePolicies :
       LET res == process_value_data(raw_val, tie)
       IN df_val_sorted' = res.df /\ err_val' = res.err
  /\ ran' = Append(ran, "value")
  /\ shown_errors' = Append(shown_errors, err_ind)
  /\ pc' = "done"
  /\ UNCHANGED <<raw_rev, raw_val, raw_ind, df_ind, err_ind,
                 df_rev_top50, err_rev, raw_rev_clean, df_top20_mix, tabs>>

\* Lines 194-195
StepIndustryError ==
  /\ pc = "gate" /\ df_ind = None
  /\ shown_errors' = Append(shown_errors, err_ind)
  /\ pc' = "done"
  /\ UNCHANGED <<raw_rev, raw_val, raw_ind, df_ind, err_ind,
                 df_rev_top50, err_rev, df_val_sorted, err_val,
                 raw_rev_clean, df_top20_mix, tabs, ran>>

Next ==
  \/ StepIndustry
  \/ StepRevenue
  \/ StepValue
  \/ StepComposite
  \/ StepErrors
  \/ StepTabs
  \/ StepIndustryError

Spec == Init /\ [][Next]_vars

(* ------------------------------ properties ---------------------------- *)

Min(a, b) == IF a < b THEN a ELSE b

\* A component has executed in this run.
Built(who) == \E k \in 1..Len(ran) : ran[k] = who

\* The number of rows of a table with the given id.
MatchCount(df, id) ==
  Cardinality({k \in 1..Len(df.rows) : df.rows[k][COL_ID] = id})

\* The number of leading rows of the Value Ranking the composite is built on.
TopCount == Min(20, Len(df_val_sorted.rows))

\* All three sources passed their schema checks and the composite is built.
C1_SchemasPass == Built("composite") /\ err_rev = None

\* C1 as stated: with all three sources passing their schema checks, the
\* Composite Top-N has exactly min(20, number of Value Ranking rows) rows,
\* also when an id repeats in the revenue or industry table.
C1_Original ==
  C1_SchemasPass => Len(df_top20_mix.rows) = TopCount

\* No id of the leading rows is on two rows of the Revenue Lookup or on two
\* rows of the Industry Table.
C1_NoRepeat ==
  \A i \in 1..TopCount :
    /\ MatchCount(raw_rev_clean, df_val_sorted.rows[i][COL_ID]) <= 1
    /\ MatchCount(df_ind, df_val_sorted.rows[i][COL_ID]) <= 1

\* C1 amended: with all three sources passing their schema checks, the
\* Composite Top-N has at least min(20, number of Value Ranking rows) rows,
\* and exactly that many when no id of those leading rows is on more than
\* one row of the Revenue Lookup or of the Industry Table.
C1_Amended ==
  C1_SchemasPass =>
    /\ Len(df_top20_mix.rows) >= TopCount
    /\ C1_NoRepeat => Len(df_top20_mix.rows) = TopCount

\* A run that cuts a longer Value Ranking to 20 rows, ids not repeated.
C1_Witness ==
  /\ C1_SchemasPass
  /\ Len(df_val_sorted.rows) > 20
  /\ Len(raw_rev_clean.rows) > 0 /\ Len(df_ind.rows) > 0
  /\ C1_NoRepeat
  /\ Len(df_top20_mix.rows) = 20

\* What a builder must return for a table and its required columns.
C2_Answer(raw, required, df, err) ==
  IF required \subseteq Columns(raw)
    THEN df # None /\ err = None
    ELSE df = None /\ err # None /\ err.names = required \ Columns(raw)

\* C2 as stated: each of the Industry Table Builder, Revenue Ranker and
\* Value Ranker returns no table and an error naming exactly the missing
\* required columns when one is absent, and a table and no error otherwise.
C2_Claim ==
  /\ Built("industry") =>
       C2_Answer(raw_ind, {COL_ID, COL_NAME, COL_IND}, df_ind, err_ind)
  /\ Built("revenue") =>
       C2_Answer(raw_rev, {COL_ID, COL_NAME, COL_GROWTH}, df_rev_top50, err_rev)
  /\ Built("value") =>
       C2_Answer(raw_val, {COL_ID, COL_NAME, target_val_col(raw_val)},
                 df_val_sorted, err_val)

\* The run has ended with the industry and value sources valid and the
\* revenue source lacking a required column.
C3_Case == pc = "done" /\ df_ind # None /\ err_rev # None /\ err_val = None

\* C3 as stated: in that case the run reports the revenue schema error and
\* still displays the Value Ranking view.
C3_Original ==
  C3_Case =>
    /\ \E k \in 1..Len(shown_errors) : shown_errors[k] = err_rev
    /\ tabs # None
    /\ tabs.tab3.rows = SubSeq(df_val_sorted.rows, 1,
                                Min(50, Len(df_val_sorted.rows)))

\* C3 amended: in that case the run reports the revenue schema error and
\* nothing else, the Value Ranking is still computed in full, and no view
\* is displayed.
C3_Amended ==
  C3_Case =>
    /\ shown_errors = <<err_rev>>
    /\ df_val_sorted # None
    /\ Len(df_val_sorted.rows) = Len(raw_val.rows)
    /\ tabs = None

\* Such a run, with a Value Ranking that has rows.
C3_Witness ==
  C3_Case /\ df_val_sorted # None /\ Len(df_val_sorted.rows) > 0

\* C4: the Revenue Leaderboard has at most 50 rows and no row whose
\* industry is one of the eight excluded names.
C4_Leaderboard ==
  df_rev_top50 # None =>
    /\ Len(df_rev_top50.rows) <= 50
    /\ \A k \in 1..Len(df_rev_top50.rows) :
         df_rev_top50.rows[k][COL_IND].v \notin exclude_industries

\* A leaderboard cut to 50 rows from a source that also held a row of an
\* excluded industry.
C4_Witness ==
  /\ df_rev_top50 # None
  /\ Len(df_rev_top50.rows) = 50
  /\ \E k \in 1..Len(raw_rev.rows), j \in 1..Len(df_ind.rows) :
       /\ clean_stock_id(raw_rev.rows[k][COL_ID]) = df_ind.rows[j][COL_ID]
       /\ df_ind.rows[j][COL_IND].v \in exclude_industries

\* The positions of the value table's columns that hold both markers.
C9_Hits ==
  {i \in 1..Len(raw_val.cols) :
     Contains(raw_val.cols[i], <<"cheng2", "jiao">>)
       /\ Contains(raw_val.cols[i], <<"bai", "wan">>)}

\* The column the claim says is used.
C9_Resolved ==
  IF C9_Hits # {}
    THEN raw_val.cols[CHOOSE i \in C9_Hits : \A j \in C9_Hits : i <= j]
    ELSE <<"cheng2", "jiao", "e", "(", "bai", "wan", ")">>

\* C5: the Value Ranking has as many rows as the value table, a row with a
\* missing or unparseable value is kept with value 0, and the
\* hundred-million field never increases from one row to the next.
C5_ValueRanking ==
  df_val_sorted # None =>
    /\ Len(df_val_sorted.rows) = Len(raw_val.rows)
    /\ Cardinality({k \in 1..Len(df_val_sorted.rows) :
                      df_val_sorted.rows[k][COL_YI].num = 0})
         >= Cardinality({k \in 1..Len(raw_val.rows) :
              IsNaN(to_numeric(clean_number(raw_val.rows[k][C9_Resolved])))})
    /\ \A k \in 1..(Len(df_val_sorted.rows) - 1) :
         df_val_sorted.rows[k + 1][COL_YI].num * df_val_sorted.rows[k][COL_YI].den
           <= df_val_sorted.rows[k][COL_YI].num * df_val_sorted.rows[k + 1][COL_YI].den

\* A ranking of a table with a missing or unparseable value and with a row
\* that had to move up.
C5_Witness ==
  /\ df_val_sorted # None
  /\ \E k \in 1..Len(raw_val.rows) :
       IsNaN(to_numeric(clean_number(raw_val.rows[k][target_val_col(raw_val)])))
  /\ \E k \in 1..(Len(raw_val.rows) - 1) :
       Less(ValueNumber(raw_val.rows[k][target_val_col(raw_val)]),
            ValueNumber(raw_val.rows[k + 1][target_val_col(raw_val)]))
  /\ df_val_sorted.rows[1][COL_YI].num > 0

\* The growth text of a revenue row does not parse as a number.
Unparseable(r) == IsNaN(to_numeric(clean_number(r[COL_GROWTH])))

\* The normalized ids of the revenue rows with unparseable growth, and of
\* those with parseable growth.
UnparseableIds ==
  {clean_stock_id(raw_rev.rows[k][COL_ID]) :
     k \in {j \in 1..Len(raw_rev.rows) : Unparseable(raw_rev.rows[j])}}
ParseableIds ==
  {clean_stock_id(raw_rev.rows[k][COL_ID]) :
     k \in {j \in 1..Len(raw_rev.rows) : ~Unparseable(raw_rev.rows[j])}}

\* Ids all of whose revenue rows are unparseable, or all parseable.
OnlyUnparseable == UnparseableIds \ ParseableIds
OnlyParseable == ParseableIds \ UnparseableIds

\* C6 as stated: in the Revenue Leaderboard a row with unparseable growth
\* has growth -999 and no such row comes before a row with a parseable
\* growth; in the Revenue Lookup the same row has a missing growth.
C6_Claim ==
  /\ df_rev_top50 # None =>
       /\ \A i \in 1..Len(df_rev_top50.rows) :
            df_rev_top50.rows[i][COL_ID] \in OnlyUnparseable
              => df_rev_top50.rows[i][COL_GROWTH] = Num(-999)
       /\ \A i, j \in 1..Len(df_rev_top50.rows) :
            (/\ i < j
             /\ df_rev_top50.rows[i][COL_ID] \in OnlyUnparseable
             /\ df_rev_top50.rows[j][COL_ID] \in OnlyParseable) => FALSE
  /\ raw_rev_clean # None =>
       \A k \in 1..Len(raw_rev.rows) :
         Unparseable(raw_rev.rows[k]) =>
           IsNaN(raw_rev_clean.rows[k][COL_GROWTH])

\* The growth rates the revenue source holds for an id.
RevGrowths(id) ==
  {to_numeric(clean_number(raw_rev.rows[k][COL_GROWTH])) :
     k \in {j \in 1..Len(raw_rev.rows) :
              clean_stock_id(raw_rev.rows[j][COL_ID]) = id}}

\* The industries the industry source holds for an id.
Industries(id) ==
  {raw_ind.rows[k][COL_IND] :
     k \in {j \in 1..Len(raw_ind.rows) :
              clean_stock_id(raw_ind.rows[j][COL_ID]) = id}} \ {NaN}

\* C7: every one of the first 20 rows of the Value Ranking appears in the
\* Composite Top-N; a composite row whose id is in the revenue source
\* carries a growth rate that source holds for the id; one whose id is in
\* the industry source carries an industry that source holds for the id,
\* and one whose id is not there has its industry missing.
C7_RoundTrip ==
  (Built("composite") /\ raw_rev_clean # None) =>
    /\ \A i \in 1..TopCount :
         \E k \in 1..Len(df_top20_mix.rows) :
           \A c \in {COL_ID, COL_NAME, COL_YI} :
             df_top20_mix.rows[k][c] = df_val_sorted.rows[i][c]
    /\ \A id \in {df_top20_mix.rows[k][COL_ID] :
                     k \in 1..Len(df_top20_mix.rows)} :
         LET growths == RevGrowths(id)
             industries == Industries(id)
         IN /\ \E i \in 1..TopCount : df_val_sorted.rows[i][COL_ID] = id
            /\ \A k \in 1..Len(df_top20_mix.rows) :
                 LET row == df_top20_mix.rows[k]
                 IN row[COL_ID] = id =>
                      /\ growths # {} => row[COL_GROWTH] \in growths
                      /\ growths = {} => IsNaN(row[COL_GROWTH])
                      /\ industries # {} => row[COL_IND] \in industries
                      /\ industries = {} => IsNaN(row[COL_IND])

\* A composite with a row found in all three sources under an id that is
\* spelled differently in them, and a row whose id has no industry.
C7_Witness ==
  /\ Built("composite") /\ raw_rev_clean # None
  /\ \E k \in 1..Len(df_top20_mix.rows) :
       /\ df_top20_mix.rows[k][COL_GROWTH].t = "n"
       /\ df_top20_mix.rows[k][COL_IND].t = "s"
       /\ \E j \in 1..Len(raw_ind.rows) :
            /\ raw_ind.rows[j][COL_ID] # df_top20_mix.rows[k][COL_ID]
            /\ clean_stock_id(raw_ind.rows[j][COL_ID])
                 = df_top20_mix.rows[k][COL_ID]
  /\ \E k \in 1..Len(df_top20_mix.rows) :
       /\ Industries(df_top20_mix.rows[k][COL_ID]) = {}
       /\ IsNaN(df_top20_mix.rows[k][COL_IND])

\* The Revenue Lookup cannot be built; the industry and value sources are
\* valid; the run has ended.
C8_Case ==
  /\ pc = "done" /\ df_ind # None /\ err_val = None
  /\ ~({COL_ID, COL_GROWTH} \subseteq Columns(raw_rev))

\* C8 as stated: in that case the Composite Top-N is produced and delivered
\* as output, its growth-rate column absent or missing on every row.
C8_Original ==
  C8_Case =>
    /\ df_top20_mix # None
    /\ tabs # None
    /\ tabs.tab1 = df_top20_mix
    /\ \A k \in 1..Len(df_top20_mix.rows) :
         COL_GROWTH \in DOMAIN df_top20_mix.rows[k]
           => IsNaN(df_top20_mix.rows[k][COL_GROWTH])

\* C8 amended: in that case the Composite Top-N is still produced, without
\* a growth-rate column and with every one of the first 20 rows of the
\* Value Ranking, but it is not delivered: the run displays the revenue
\* schema error and no view.
C8_Amended ==
  C8_Case =>
    /\ df_top20_mix # None
    /\ COL_GROWTH \notin Columns(df_top20_mix)
    /\ COL_IND \in Columns(df_top20_mix)
    /\ Len(df_top20_mix.rows) >= TopCount
    /\ raw_rev_clean = None
    /\ shown_errors = <<err_rev>> /\ err_rev # None
    /\ tabs = None

\* Such a run, with a composite that has rows.
C8_Witness ==
  C8_Case /\ df_top20_mix # None /\ Len(df_top20_mix.rows) > 0

\* C9: the Value Ranker uses the first column holding both markers, else
\* the fixed name; it fails with a schema error exactly when that column,
\* the id column or the name column is not a column of the table, and
\* otherwise ranks the values of that column.
C9_Resolution ==
  Built("value") =>
    /\ (df_val_sorted = None)
         = ~({C9_Resolved, COL_ID, COL_NAME} \subseteq Columns(raw_val))
    /\ (err_val # None) = (df_val_sorted = None)
    /\ df_val_sorted # None =>
         {df_val_sorted.rows[k][COL_YI] : k \in 1..Len(df_val_sorted.rows)}
           = {Rat(fillna(to_numeric(clean_number(raw_val.rows[k][C9_Resolved])),
                         0).v, 100) : k \in 1..Len(raw_val.rows)}

\* A ranking of a table with two columns holding both markers.
C9_Witness ==
  /\ Built("value") /\ df_val_sorted # None
  /\ Cardinality(C9_Hits) >= 2
  /\ Len(df_val_sorted.rows) > 0

Downstream == {"revenue", "value", "lookup", "composite"}

\* C10: a downstream component runs only after the Industry Table Builder
\* has run and returned a table; when it fails, the run ends with nothing
\* else run, the industry error alone reported and no view produced.
C10_Gate ==
  /\ \A k \in 1..Len(ran) :
       ran[k] \in Downstream => (k > 1 /\ ran[1] = "industry" /\ df_ind # None)
  /\ (Built("industry") /\ df_ind = None) =>
       /\ pc \in {"gate", "done"}
       /\ ran = <<"industry">>
       /\ df_rev_top50 = None /\ df_val_sorted = None /\ df_top20_mix = None
       /\ tabs = None
       /\ pc = "done" => shown_errors = <<err_ind>>

\* A run ended by the industry error although its value source is valid.
C10_Witness ==
  /\ pc = "done" /\ df_ind = None
  /\ {target_val_col(raw_val), COL_ID, COL_NAME} \subseteq Columns(raw_val)
  /\ shown_errors = <<err_ind>>

====
